---- MODULE Spec2Model ----
(***************************************************************************)
(* Model of TrajoptPickAndPlaceConstructor                                 *)
(* (demo3/src/trajopt_pick_and_place_constructor.cpp): the assembly of a   *)
(* trajopt ProblemConstructionInfo for the pick and the place motion.      *)
(*                                                                         *)
(* Doubles are modelled as exact rationals extended with the IEEE special  *)
(* values NaN and +-Inf (rounding is not modelled).  Orientations are      *)
(* rotations of the cube group, held as 3x3 integer matrices; a rotation   *)
(* that leaves that group (a fractional interpolation step) is kept in     *)
(* symbolic axis-angle form on top of its base rotation.                   *)
(***************************************************************************)
EXTENDS Integers, Sequences, FiniteSets, TLC

VARIABLES env, call, pc, pci, start_pose, fk_status, outcome

vars == <<env, call, pc, pci, start_pose, fk_status, outcome>>

(***************************************************************************)
(* Bounds of the model.                                                    *)
(***************************************************************************)
MaxSteps == 3        \* steps_per_phase / num_steps range over 0..MaxSteps
MaxFirst == 2        \* first_time_step of a direct addLinearMotion call
MaxJoints == 2       \* joints of the manipulator: 1..MaxJoints
MaxExtra == 1        \* joints of the environment outside the manipulator

(***************************************************************************)
(* double: exact rationals plus NaN, +Inf, -Inf.                           *)
(***************************************************************************)
Abs(n) == IF n < 0 THEN -n ELSE n

RECURSIVE GCD(_, _)
GCD(a, b) == IF b = 0 THEN a ELSE GCD(b, a % b)

NaN == [kind |-> "nan", num |-> 0, den |-> 1]
PInf == [kind |-> "inf", num |-> 1, den |-> 1]
NInf == [kind |-> "inf", num |-> -1, den |-> 1]

Fin(n, d) ==
  LET g == GCD(Abs(n), Abs(d))
      s == IF d < 0 THEN -1 ELSE 1
  IN [kind |-> "fin", num |-> (s * n) \div g, den |-> (s * d) \div g]

DInt(n) == [kind |-> "fin", num |-> n, den |-> 1]

Sign(a) == IF a.num > 0 THEN 1 ELSE IF a.num < 0 THEN -1 ELSE 0

DAdd(a, b) ==
  IF a.kind = "nan" \/ b.kind = "nan" THEN NaN
  ELSE IF a.kind = "inf" /\ b.kind = "inf" THEN (IF a = b THEN a ELSE NaN)
  ELSE IF a.kind = "inf" THEN a
  ELSE IF b.kind = "inf" THEN b
  ELSE Fin(a.num * b.den + b.num * a.den, a.den * b.den)

DNeg(a) == IF a.kind = "nan" THEN NaN ELSE [a EXCEPT !.num = -(a.num)]

DSub(a, b) == DAdd(a, DNeg(b))

DMul(a, b) ==
  IF a.kind = "nan" \/ b.kind = "nan" THEN NaN
  ELSE IF a.kind = "inf" \/ b.kind = "inf"
       THEN (IF Sign(a) * Sign(b) = 0 THEN NaN
             ELSE IF Sign(a) * Sign(b) > 0 THEN PInf ELSE NInf)
  ELSE Fin(a.num * b.num, a.den * b.den)

DDiv(a, b) ==
  IF a.kind = "nan" \/ b.kind = "nan" THEN NaN
  ELSE IF a.kind = "inf" /\ b.kind = "inf" THEN NaN
  ELSE IF a.kind = "inf" THEN (IF Sign(a) * Sign(b) >= 0 THEN a ELSE DNeg(a))
  ELSE IF b.kind = "inf" THEN DInt(0)
  ELSE IF b.num = 0
       THEN (IF a.num = 0 THEN NaN ELSE IF a.num > 0 THEN PInf ELSE NInf)
  ELSE Fin(a.num * b.den, a.den * b.num)

(***************************************************************************)
(* Eigen::Vector3d and Eigen::Matrix3d.                                    *)
(***************************************************************************)
VecD(v) == [c \in 1..3 |-> DInt(v[c])]

VSub(u, v) == [c \in 1..3 |-> DSub(u[c], v[c])]

VAdd(u, v) == [c \in 1..3 |-> DAdd(u[c], v[c])]

VScale(u, s) == [c \in 1..3 |-> DMul(u[c], s)]

VDivScalar(u, s) == [c \in 1..3 |-> DDiv(u[c], s)]

Identity3 == <<<<1, 0, 0>>, <<0, 1, 0>>, <<0, 0, 1>>>>

MatMul(A, B) ==
  [r \in 1..3 |-> [c \in 1..3 |->
      A[r][1] * B[1][c] + A[r][2] * B[2][c] + A[r][3] * B[3][c]]]

\* inverse of an orthonormal matrix (its transpose)
MatInverse(A) == [r \in 1..3 |-> [c \in 1..3 |-> A[c][r]]]

MatAdd(A, B) == [r \in 1..3 |-> [c \in 1..3 |-> A[r][c] + B[r][c]]]

MatScale(A, n, d) == [r \in 1..3 |-> [c \in 1..3 |-> (A[r][c] * n) \div d]]

Skew(a) == <<<<0, -(a[3]), a[2]>>, <<a[3], 0, -(a[1])>>, <<-(a[2]), a[1], 0>>>>

Trace(M) == M[1][1] + M[2][2] + M[3][3]

Primitive(v) ==
  LET g == GCD(GCD(Abs(v[1]), Abs(v[2])), Abs(v[3]))
  IN [c \in 1..3 |-> v[c] \div g]

(***************************************************************************)
(* Eigen::AngleAxisd(const Matrix3d&): through Quaterniond(matrix).        *)
(* The axis is a unit vector; it is held as the primitive integer vector   *)
(* of its direction.  The angle is in degrees, in [0, 180].                *)
(***************************************************************************)
QuatVecDir(M) ==
  IF Trace(M) > 0
  THEN <<M[3][2] - M[2][3], M[1][3] - M[3][1], M[2][1] - M[1][2]>>
  ELSE LET i0 == IF M[2][2] > M[1][1] THEN 2 ELSE 1
           i == IF M[3][3] > M[i0][i0] THEN 3 ELSE i0
           j == (i % 3) + 1
           k == (j % 3) + 1
           w == M[k][j] - M[j][k]
           s == IF w < 0 THEN -1 ELSE 1
       IN [c \in 1..3 |->
             IF c = i THEN s * (M[i][i] - M[j][j] - M[k][k] + 1)
             ELSE IF c = j THEN s * (M[j][i] + M[i][j])
             ELSE s * (M[k][i] + M[i][k])]

AngleAxisAngle(M) ==
  CASE Trace(M) = 3 -> 0
    [] Trace(M) = 1 -> 90
    [] Trace(M) = 0 -> 120
    [] Trace(M) = -1 -> 180

AngleAxisAxis(M) ==
  IF QuatVecDir(M) = <<0, 0, 0>> THEN <<1, 0, 0>> ELSE Primitive(QuatVecDir(M))

(***************************************************************************)
(* Quaterniond(cos(a/2), axis*sin(a/2)) as a rotation.  Rodrigues' formula *)
(* R = I + sin(a)K + (1-cos(a))K^2 for the angles that stay in the cube    *)
(* group; any other finite angle gives no matrix of the group.             *)
(***************************************************************************)
Norm2(a) == a[1] * a[1] + a[2] * a[2] + a[3] * a[3]

HasGroupMatrix(axis, angle) ==
  /\ angle.kind = "fin"
  /\ angle.den = 1
  /\ \/ angle.num = 0
     \/ angle.num = 90 /\ Norm2(axis) = 1
     \/ angle.num = 120 /\ Norm2(axis) = 3
     \/ angle.num = 180 /\ Norm2(axis) \in {1, 2}

AxisAngleMatrix(axis, angle) ==
  LET K == Skew(axis)
      K2 == MatMul(K, K)
  IN CASE angle.num = 0 -> Identity3
       [] angle.num = 90 -> MatAdd(Identity3, MatAdd(K, K2))
       [] angle.num = 120 -> MatAdd(Identity3, MatScale(MatAdd(K, K2), 1, 2))
       [] angle.num = 180 -> MatAdd(Identity3, MatScale(K2, 2, Norm2(axis)))

(***************************************************************************)
(* An orientation value: a rotation of the group ("rot"), a rotation       *)
(* `angle` about `axis` applied on the left of the group rotation m        *)
(* ("sym"), or a quaternion of NaNs ("nan").                               *)
(***************************************************************************)
Rot(M) == [kind |-> "rot", m |-> M, axis |-> <<0, 0, 0>>, angle |-> DInt(0)]

NaNRot == [kind |-> "nan", m |-> Identity3, axis |-> <<0, 0, 0>>, angle |-> NaN]

\* rotation_delta * approach_rotation
QuatMulOnLeft(axis, angle, base) ==
  IF angle.kind # "fin" THEN NaNRot
  ELSE IF HasGroupMatrix(axis, angle)
       THEN Rot(MatMul(AxisAngleMatrix(axis, angle), base))
  ELSE [kind |-> "sym", m |-> base, axis |-> axis, angle |-> angle]

(***************************************************************************)
(* Poses (Eigen::Affine3d): translation and linear part.                   *)
(***************************************************************************)
Rx90 == <<<<1, 0, 0>>, <<0, 0, -1>>, <<0, 1, 0>>>>
Rz90 == <<<<0, -1, 0>>, <<1, 0, 0>>, <<0, 0, 1>>>>
Rz180 == MatMul(Rz90, Rz90)
R120 == MatMul(Rx90, Rz90)
Rd180 == MatMul(Rx90, Rz180)

Positions == {<<0, 0, 0>>, <<1, 0, 0>>}

\* orientations offered to a direct addLinearMotion call
Orientations == {Identity3, Rx90, Rz90, Rz180, R120, Rd180}

Pose(p, R) == [xyz |-> VecD(p), rot |-> R]

Poses == {Pose(p, R) : p \in Positions, R \in Orientations}

\* poses offered to generatePickProblem / generatePlaceProblem and returned
\* by the forward kinematics
PhasePoses ==
  {Pose(<<0, 0, 0>>, Identity3), Pose(<<1, 0, 0>>, Rx90),
   Pose(<<0, 0, 0>>, Rz90)}

NoPose == Pose(<<0, 0, 0>>, Identity3)

(***************************************************************************)
(* The environment (tesseract::BasicEnv) and the manipulator (kin_).       *)
(***************************************************************************)
Manipulator == "manipulator"

EELink == "ee_link"

ManipJointNames(J) == [i \in 1..J |-> "joint_" \o ToString(i)]

ExtraJointNames(E) == [i \in 1..E |-> "ext_" \o ToString(i)]

JointStates(n) == {[i \in 1..n |-> 0], [i \in 1..n |-> i]}

Envs ==
  UNION {UNION {{[manip_joints |-> ManipJointNames(J),
                  robot_joints |-> ManipJointNames(J) \o ExtraJointNames(E),
                  joint_values |-> v] : v \in JointStates(J + E)} :
                E \in 0..MaxExtra} : J \in 1..MaxJoints}

\* env_->getCurrentJointValues(): every joint of the environment
getCurrentJointValues(e) == e.joint_values

\* env_->getCurrentJointValues(manipulator name): the manipulator's joints,
\* in the order of the manipulator's joint names
getCurrentJointValuesOf(e) ==
  [i \in 1..Len(e.manip_joints) |->
     e.joint_values[CHOOSE r \in 1..Len(e.robot_joints) :
                      e.robot_joints[r] = e.manip_joints[i]]]

\* kin_->getJointNames()
getJointNames(e) == e.manip_joints

(***************************************************************************)
(* trajopt::ProblemConstructionInfo pci(env_)                              *)
(***************************************************************************)
NewPci ==
  [n_steps |-> 0, start_fixed |-> FALSE, manip |-> "", init_type |-> "NONE",
   init_data |-> <<>>, cnt_infos |-> <<>>, cost_infos |-> <<>>]

(***************************************************************************)
(* addInitialJointPosConstraint                                            *)
(***************************************************************************)
StartJointPos(e) == getCurrentJointValues(e)

addInitialJointPosConstraint(p, e) ==
  LET start_constraint ==
        [type |-> "JointConstraintInfo",
         term_type |-> "TT_CNT",
         timestep |-> 0,
         name |-> "start_pos_constraint",
         vals |-> StartJointPos(e)]
  IN [p EXCEPT !.cnt_infos = Append(@, start_constraint)]

(***************************************************************************)
(* addJointVelCost                                                         *)
(***************************************************************************)
JointVelName(joint_name) == joint_name \o "_vel"

\* mutation: the last step is one past the timeline
JointVelLastStep_past(n_steps) == n_steps

JointVelLastStep(n_steps) == n_steps - 1

addJointVelCost(p, e) ==
  LET joint_names == getJointNames(e)
      jv(i) == [type |-> "JointVelTermInfo",
                coeffs |-> <<DInt(5)>>,
                name |-> JointVelName(joint_names[i]),
                term_type |-> "TT_COST",
                first_step |-> 0,
                last_step |-> JointVelLastStep(p.n_steps),
                joint_name |-> joint_names[i],
                penalty_type |-> "SQUARED"]
  IN [p EXCEPT !.cost_infos = @ \o [i \in 1..Len(joint_names) |-> jv(i)]]

(***************************************************************************)
(* addCollisionCost                                                        *)
(***************************************************************************)
addCollisionCost(p, dist_pen, coeff, first_step, last_step) ==
  LET collision ==
        [type |-> "CollisionCostInfo",
         name |-> "collision",
         term_type |-> "TT_COST",
         continuous |-> FALSE,
         first_step |-> first_step,
         last_step |-> last_step,
         gap |-> 1,
         info |-> [size |-> last_step - first_step + 1,
                   dist_pen |-> dist_pen, coeff |-> coeff]]
  IN [p EXCEPT !.cost_infos = Append(@, collision)]

(***************************************************************************)
(* addLinearMotion                                                         *)
(***************************************************************************)
\* mutation: the offset of the segment is dropped
PoseTimestep_local(i, first_time_step) == i

PoseTimestep(i, first_time_step) == i + first_time_step

\* mutation: the name embeds the index inside the segment
PoseName_local(i, first_time_step) == "pose_" \o ToString(i)

PoseName(i, first_time_step) == "pose_" \o ToString(i + first_time_step)

\* rotation = rotation_delta * approach_rotation, rotation_delta being the
\* quaternion of the angle angle_delta * i about delta_axis
InterpolatedRotation(approach_rotation, delta_axis, angle_delta, i) ==
  QuatMulOnLeft(delta_axis, DMul(angle_delta, DInt(i)), approach_rotation)

InterpolatedXyz(start_xyz, xyz_delta, i) ==
  VAdd(start_xyz, VScale(xyz_delta, DInt(i)))

LinearMotionConstraints(start, end, num_steps, first_time_step) ==
  LET xyz_delta == VDivScalar(VSub(end.xyz, start.xyz), DInt(num_steps - 1))
      approach_rotation == start.rot
      rotation_diff == MatMul(MatInverse(start.rot), end.rot)
      angle_delta == DDiv(DInt(AngleAxisAngle(rotation_diff)),
                          DInt(num_steps - 1))
      delta_axis == AngleAxisAxis(rotation_diff)
      pose_constraint(i) ==
        [type |-> "StaticPoseCostInfo",
         term_type |-> "TT_CNT",
         link |-> EELink,
         timestep |-> PoseTimestep(i, first_time_step),
         xyz |-> InterpolatedXyz(start.xyz, xyz_delta, i),
         wxyz |-> InterpolatedRotation(approach_rotation, delta_axis,
                                       angle_delta, i),
         pos_coeffs |-> <<DInt(10), DInt(10), DInt(10)>>,
         rot_coeffs |-> <<DInt(10), DInt(10), DInt(10)>>,
         name |-> PoseName(i, first_time_step)]
  IN [j \in 1..num_steps |-> pose_constraint(j - 1)]

addLinearMotion(p, start, end, num_steps, first_time_step) ==
  [p EXCEPT !.cnt_infos =
     @ \o LinearMotionConstraints(start, end, num_steps, first_time_step)]

(***************************************************************************)
(* ConstructProblem(pci): the problem handed to the solver.                *)
(***************************************************************************)
ConstructProblem(p) ==
  [n_steps |-> p.n_steps,
   manip |-> p.manip,
   init_traj |-> [t \in 1..p.n_steps |-> p.init_data],
   cnts |-> p.cnt_infos,
   costs |-> p.cost_infos]

NoProblem ==
  [n_steps |-> 0, manip |-> "", init_traj |-> <<>>, cnts |-> <<>>,
   costs |-> <<>>]

(***************************************************************************)
(* Phase arithmetic of generatePickProblem and generatePlaceProblem.       *)
(***************************************************************************)
PickNSteps(steps_per_phase) == steps_per_phase * 2

\* mutation: the segment of the pick problem starts at step 0
PickLinearFirst_zero(steps_per_phase) == 0

PickLinearFirst(steps_per_phase) == steps_per_phase

PickCollisionFirst(steps_per_phase) == 0

\* mutation: the collision range of the pick problem stops at step k-1
PickCollisionLast_short(steps_per_phase) == steps_per_phase - 1

PickCollisionLast(steps_per_phase) == steps_per_phase

PlaceNSteps(steps_per_phase) == steps_per_phase * 3

PlaceRetreatFirst(steps_per_phase) == 0

\* mutation: the second segment of the place problem starts at step k
PlaceFinalFirst_middle(steps_per_phase) == steps_per_phase

PlaceFinalFirst(steps_per_phase) == steps_per_phase * 2

PlaceCollisionFirst(steps_per_phase) == steps_per_phase

PlaceCollisionLast(steps_per_phase) == steps_per_phase * 2 - 1

(***************************************************************************)
(* State.                                                                  *)
(*   env        the environment the constructor was built with             *)
(*   call       the operation in progress and its arguments                *)
(*   pc         the statement the operation is about to execute            *)
(*   pci        the ProblemConstructionInfo under construction             *)
(*   start_pose the local start_pose of generatePlaceProblem               *)
(*   fk_status  what the forward-kinematics query of the call reported     *)
(*   outcome    what the operation handed to its caller                    *)
(***************************************************************************)
NoCall ==
  [op |-> "none", retreat |-> NoPose, approach |-> NoPose, final |-> NoPose,
   steps |-> 0, first |-> 0]

NoOutcome == [status |-> "none", what |-> "", prob |-> NoProblem]

Init ==
  /\ env \in Envs
  /\ call = NoCall
  /\ pc = "idle"
  /\ pci = NewPci
  /\ start_pose = NoPose
  /\ fk_status = "not_called"
  /\ outcome = NoOutcome

Enter(c, first_pc, p) ==
  /\ pc = "idle"
  /\ call' = c
  /\ pc' = first_pc
  /\ pci' = p
  /\ start_pose' = NoPose
  /\ fk_status' = "not_called"
  /\ outcome' = NoOutcome
  /\ UNCHANGED env

\* generatePickProblem, up to the stationary initialization
GeneratePickProblem ==
  \E approach_pose \in PhasePoses, final_pose \in PhasePoses,
     steps_per_phase \in 0..MaxSteps :
    Enter([op |-> "pick", retreat |-> NoPose, approach |-> approach_pose,
           final |-> final_pose, steps |-> steps_per_phase, first |-> 0],
          "pick_vel",
          [NewPci EXCEPT !.n_steps = PickNSteps(steps_per_phase),
                         !.start_fixed = FALSE,
                         !.manip = Manipulator,
                         !.init_type = "STATIONARY",
                         !.init_data = getCurrentJointValuesOf(env)])

\* generatePlaceProblem, up to the stationary initialization
GeneratePlaceProblem ==
  \E retreat_pose \in PhasePoses, approach_pose \in PhasePoses,
     final_pose \in PhasePoses, steps_per_phase \in 0..MaxSteps :
    Enter([op |-> "place", retreat |-> retreat_pose,
           approach |-> approach_pose, final |-> final_pose,
           steps |-> steps_per_phase, first |-> 0],
          "place_vel",
          [NewPci EXCEPT !.n_steps = PlaceNSteps(steps_per_phase),
                         !.start_fixed = FALSE,
                         !.manip = Manipulator,
                         !.init_type = "STATIONARY",
                         !.init_data = getCurrentJointValuesOf(env)])

\* a caller invoking addLinearMotion on a new ProblemConstructionInfo
CallAddLinearMotion ==
  \E start \in Poses, end \in Poses, num_steps \in 0..MaxSteps,
     first_time_step \in 0..MaxFirst :
    Enter([op |-> "linear", retreat |-> NoPose, approach |-> start,
           final |-> end, steps |-> num_steps, first |-> first_time_step],
          "linear", NewPci)

NextPc ==
  [pick_vel |-> "pick_init", pick_init |-> "pick_linear",
   pick_linear |-> "pick_coll", pick_coll |-> "construct",
   place_vel |-> "place_init", place_init |-> "place_fk",
   place_fk |-> "place_linear1", place_linear1 |-> "place_linear2",
   place_linear2 |-> "place_coll", place_coll |-> "construct",
   linear |-> "done"]

Step(p) ==
  /\ pci' = p
  /\ pc' = NextPc[pc]
  /\ UNCHANGED <<env, call, start_pose, fk_status, outcome>>

\* this->addJointVelCost(pci, 5.0)
AddJointVelCost ==
  /\ pc \in {"pick_vel", "place_vel"}
  /\ Step(addJointVelCost(pci, env))

\* this->addInitialJointPosConstraint(pci)
AddInitialJointPosConstraint ==
  /\ pc \in {"pick_init", "place_init"}
  /\ Step(addInitialJointPosConstraint(pci, env))

\* pci.kin->calcFwdKin(start_pose, transforms.at(base link), ...): the
\* lookup of the base link may throw std::out_of_range; calcFwdKin returns
\* true and has written start_pose, or returns false, which the caller
\* does not look at, and start_pose stays what the uninitialized local was.
CalcFwdKin ==
  /\ pc = "place_fk"
  /\ \/ /\ pc' = "thrown"
        /\ outcome' = [status |-> "exception", what |-> "std::out_of_range",
                     prob |-> NoProblem]
        /\ fk_status' = "base_link_missing"
        /\ UNCHANGED <<env, call, pci, start_pose>>
     \/ /\ \E fk_pose \in PhasePoses : start_pose' = fk_pose
        /\ fk_status' = "ok"
        /\ pc' = NextPc[pc]
        /\ UNCHANGED <<env, call, pci, outcome>>
     \/ /\ \E garbage \in PhasePoses : start_pose' = garbage
        /\ fk_status' = "failed"
        /\ pc' = NextPc[pc]
        /\ UNCHANGED <<env, call, pci, outcome>>

\* the arguments of the addLinearMotion call the operation is about to make
LinearArgs ==
  CASE pc = "pick_linear" ->
         [start |-> call.approach, end |-> call.final,
          num_steps |-> call.steps, first |-> PickLinearFirst(call.steps)]
    [] pc = "place_linear1" ->
         [start |-> start_pose, end |-> call.retreat,
          num_steps |-> call.steps, first |-> PlaceRetreatFirst(call.steps)]
    [] pc = "place_linear2" ->
         [start |-> call.approach, end |-> call.final,
          num_steps |-> call.steps, first |-> PlaceFinalFirst(call.steps)]
    [] OTHER ->
         [start |-> call.approach, end |-> call.final,
          num_steps |-> call.steps, first |-> call.first]

AtLinear == pc \in {"pick_linear", "place_linear1", "place_linear2", "linear"}

\* this->addLinearMotion(pci, start, end, num_steps, first_time_step)
AddLinearMotion ==
  /\ AtLinear
  /\ Step(addLinearMotion(pci, LinearArgs.start, LinearArgs.end,
                          LinearArgs.num_steps, LinearArgs.first))

\* this->addCollisionCost(pci, 0.025, 20, first_step, last_step)
AddCollisionCost ==
  /\ pc \in {"pick_coll", "place_coll"}
  /\ Step(IF pc = "pick_coll"
          THEN addCollisionCost(pci, Fin(25, 1000), DInt(20),
                                PickCollisionFirst(call.steps),
                                PickCollisionLast(call.steps))
          ELSE addCollisionCost(pci, Fin(25, 1000), DInt(20),
                                PlaceCollisionFirst(call.steps),
                                PlaceCollisionLast(call.steps)))

\* TrajOptProbPtr result = ConstructProblem(pci); return result;
Construct ==
  /\ pc = "construct"
  /\ pc' = "done"
  /\ outcome' = [status |-> "returned", what |-> "",
                 prob |-> ConstructProblem(pci)]
  /\ UNCHANGED <<env, call, pci, start_pose, fk_status>>

\* the caller takes the result (or the exception); the constructor is ready
\* for its next call, which starts from a new ProblemConstructionInfo
Finish ==
  /\ pc \in {"done", "thrown"}
  /\ pc' = "idle"
  /\ call' = NoCall
  /\ pci' = NewPci
  /\ start_pose' = NoPose
  /\ fk_status' = "not_called"
  /\ outcome' = NoOutcome
  /\ UNCHANGED env

Next ==
  \/ GeneratePickProblem
  \/ GeneratePlaceProblem
  \/ CallAddLinearMotion
  \/ AddJointVelCost
  \/ AddInitialJointPosConstraint
  \/ CalcFwdKin
  \/ AddLinearMotion
  \/ AddCollisionCost
  \/ Construct
  \/ Finish

Spec == Init /\ [][Next]_vars

(***************************************************************************)
(* Properties.                                                             *)
(***************************************************************************)
IsPose(t) == t.type = "StaticPoseCostInfo"

IsBoundary(t) == t.type = "JointConstraintInfo"

IsJointVel(t) == t.type = "JointVelTermInfo"

IsCollision(t) == t.type = "CollisionCostInfo"

Timesteps(terms) == {terms[i].timestep : i \in DOMAIN terms}

\* a pick or place problem has been constructed and returned
Assembled(op) ==
  pc = "done" /\ call.op = op /\ outcome.status = "returned"

\* C1: a pick problem built with stepsPerPhase = k >= 2 has n_steps = 2k,
\* one boundary joint constraint, at timestep 0, exactly k pose constraints
\* whose timesteps are exactly k..2k-1, and one joint-velocity cost per
\* manipulator joint.
C1_PickShape ==
  (Assembled("pick") /\ call.steps >= 2) =>
    LET k == call.steps
        prob == outcome.prob
        boundary == SelectSeq(prob.cnts, IsBoundary)
        poses == SelectSeq(prob.cnts, IsPose)
    IN /\ prob.n_steps = 2 * k
       /\ Len(boundary) = 1
       /\ boundary[1].timestep = 0
       /\ Len(poses) = k
       /\ Timesteps(poses) = k..(2 * k - 1)
       /\ Len(SelectSeq(prob.costs, IsJointVel)) = Len(env.manip_joints)

C1_Witness ==
  /\ Assembled("pick")
  /\ call.steps = 3
  /\ Len(env.manip_joints) = 2
  /\ Len(SelectSeq(outcome.prob.cnts, IsPose)) = 3

\* C2: a place problem built with stepsPerPhase = k >= 2 has n_steps = 3k,
\* one boundary joint constraint, k pose constraints at timesteps 0..k-1,
\* k pose constraints at timesteps 2k..3k-1, none at k..2k-1, and exactly
\* one collision cost, over [k, 2k-1].
C2_PlaceShape ==
  (Assembled("place") /\ call.steps >= 2) =>
    LET k == call.steps
        prob == outcome.prob
        poses == SelectSeq(prob.cnts, IsPose)
        seg1 == SelectSeq(poses, LAMBDA t : t.timestep < k)
        seg2 == SelectSeq(poses, LAMBDA t : t.timestep >= 2 * k)
        collision == SelectSeq(prob.costs, IsCollision)
    IN /\ prob.n_steps = 3 * k
       /\ Len(SelectSeq(prob.cnts, IsBoundary)) = 1
       /\ Len(seg1) = k
       /\ Timesteps(seg1) = 0..(k - 1)
       /\ Len(seg2) = k
       /\ Timesteps(seg2) = (2 * k)..(3 * k - 1)
       /\ Len(poses) = 2 * k
       /\ Len(collision) = 1
       /\ collision[1].first_step = k
       /\ collision[1].last_step = 2 * k - 1

C2_Witness ==
  /\ Assembled("place")
  /\ call.steps = 3
  /\ fk_status = "ok"
  /\ Len(SelectSeq(outcome.prob.cnts, IsPose)) = 6

\* a linear segment has been requested and addLinearMotion has returned
LinearDone ==
  pc \in {"pick_coll", "place_linear2", "place_coll", "construct", "done"}

\* C3: a linear segment requested with numSteps < 2 (in particular 1) fails
\* with a DegenerateInterpolation error and no pose constraint is appended.
C3_DegenerateRejected ==
  (LinearDone /\ call.steps < 2) =>
    /\ outcome.status = "exception"
    /\ outcome.what = "DegenerateInterpolation"
    /\ SelectSeq(pci.cnt_infos, IsPose) = <<>>

\* C4: when the forward-kinematics query of generatePlaceProblem reports
\* failure (calcFwdKin fails or the base-link lookup fails) the assembly is
\* aborted there: the caller gets an error, no pose constraint and no
\* collision cost is added, no problem is constructed.
C4_FwdKinFailureAborts ==
  (fk_status \in {"failed", "base_link_missing"}) =>
    /\ pc = "thrown"
    /\ outcome.status = "exception"
    /\ outcome.prob = NoProblem
    /\ SelectSeq(pci.cnt_infos, IsPose) = <<>>
    /\ SelectSeq(pci.cost_infos, IsCollision) = <<>>

\* the pose a pose constraint pins the link to
SamePose(term, pose) ==
  /\ term.xyz = pose.xyz
  /\ term.wxyz = Rot(pose.rot)

\* C5: for n >= 2 the first pose emitted by addLinearMotion is the start
\* pose and the last one (index n-1) is the end pose, in position and in
\* orientation, whatever the two orientations are.
C5_InterpolationEndpoints ==
  (pc = "done" /\ call.op = "linear" /\ call.steps >= 2) =>
    /\ SamePose(pci.cnt_infos[1], call.approach)
    /\ SamePose(pci.cnt_infos[call.steps], call.final)

\* C6: for N >= 2 one call of addLinearMotion appends exactly N pose
\* constraints, the i-th at timestep firstTimestep + i, and leaves the
\* constraints already there and the cost terms unchanged.
C6_SegmentAppended ==
  [][(AtLinear /\ LinearArgs.num_steps >= 2) =>
       LET N == LinearArgs.num_steps
           old == Len(pci.cnt_infos)
       IN /\ Len(pci'.cnt_infos) = old + N
          /\ SubSeq(pci'.cnt_infos, 1, old) = pci.cnt_infos
          /\ \A i \in 0..(N - 1) :
               /\ IsPose(pci'.cnt_infos[old + 1 + i])
               /\ pci'.cnt_infos[old + 1 + i].timestep = LinearArgs.first + i
          /\ pci'.cost_infos = pci.cost_infos]_vars

C6_Witness ==
  /\ pc = "place_coll"
  /\ call.steps = 3
  /\ Len(pci.cnt_infos) = 7
  /\ pci.cnt_infos[5].timestep = 6

InTimeline(t, n_steps) == 0 <= t /\ t <= n_steps - 1

\* C7: in every assembled pick or place problem with stepsPerPhase >= 1 the
\* timestep of every constraint and the first_step and last_step of every
\* cost lie in [0, n_steps-1], with first_step <= last_step.
C7_TermsInsideTimeline ==
  ((Assembled("pick") \/ Assembled("place")) /\ call.steps >= 1) =>
    LET prob == outcome.prob
    IN /\ \A i \in DOMAIN prob.cnts :
            InTimeline(prob.cnts[i].timestep, prob.n_steps)
       /\ \A i \in DOMAIN prob.costs :
            /\ InTimeline(prob.costs[i].first_step, prob.n_steps)
            /\ InTimeline(prob.costs[i].last_step, prob.n_steps)
            /\ prob.costs[i].first_step <= prob.costs[i].last_step

C7_Witness ==
  /\ Assembled("pick")
  /\ call.steps = 1
  /\ \E i \in DOMAIN outcome.prob.costs :
       /\ IsCollision(outcome.prob.costs[i])
       /\ outcome.prob.costs[i].last_step = outcome.prob.n_steps - 1

\* the number of phases a timestep belongs to: the pose constraints at it
\* plus the collision costs whose range holds it
PhasesAt(prob, t) ==
  Cardinality({i \in DOMAIN prob.cnts :
                 IsPose(prob.cnts[i]) /\ prob.cnts[i].timestep = t})
  + Cardinality({i \in DOMAIN prob.costs :
                   /\ IsCollision(prob.costs[i])
                   /\ prob.costs[i].first_step <= t
                   /\ t <= prob.costs[i].last_step})

PhasesInsideTimeline(prob) ==
  /\ \A i \in DOMAIN prob.cnts :
       IsPose(prob.cnts[i]) => InTimeline(prob.cnts[i].timestep, prob.n_steps)
  /\ \A i \in DOMAIN prob.costs :
       IsCollision(prob.costs[i]) =>
         /\ InTimeline(prob.costs[i].first_step, prob.n_steps)
         /\ InTimeline(prob.costs[i].last_step, prob.n_steps)

\* C8 as stated: in every assembled pick or place problem with
\* stepsPerPhase >= 2 every timestep of [0, n_steps-1] belongs to exactly
\* one phase (pose-constrained segment or collision-checked range).
C8_Original ==
  ((Assembled("pick") \/ Assembled("place")) /\ call.steps >= 2) =>
    /\ PhasesInsideTimeline(outcome.prob)
    /\ \A t \in 0..(outcome.prob.n_steps - 1) : PhasesAt(outcome.prob, t) = 1

\* C8 amended: the phases lie inside and cover [0, n_steps-1]; every
\* timestep belongs to exactly one phase, except timestep stepsPerPhase of
\* a pick problem, which belongs to both the collision range
\* [0, stepsPerPhase] and the pose-constrained segment.
C8_PhasesCoverTimeline ==
  ((Assembled("pick") \/ Assembled("place")) /\ call.steps >= 2) =>
    /\ PhasesInsideTimeline(outcome.prob)
    /\ \A t \in 0..(outcome.prob.n_steps - 1) :
         PhasesAt(outcome.prob, t) =
           IF call.op = "pick" /\ t = call.steps THEN 2 ELSE 1

C8_Witness ==
  /\ Assembled("pick")
  /\ call.steps = 2
  /\ PhasesAt(outcome.prob, 2) = 2
  /\ PhasesAt(outcome.prob, 1) = 1

AllDistinct(seq) ==
  \A i, j \in DOMAIN seq : seq[i] = seq[j] => i = j

\* C9: in every assembled pick or place problem with stepsPerPhase >= 1 and
\* pairwise distinct joint names no two terms, constraints and costs
\* together, have the same name.
C9_UniqueNames ==
  ((Assembled("pick") \/ Assembled("place")) /\ call.steps >= 1
     /\ AllDistinct(env.manip_joints)) =>
    LET terms == outcome.prob.cnts \o outcome.prob.costs
    IN AllDistinct([i \in DOMAIN terms |-> terms[i].name])

C9_Witness ==
  /\ Assembled("place")
  /\ call.steps = 2
  /\ Len(env.manip_joints) = 2
  /\ \E i, j \in DOMAIN outcome.prob.cnts :
       /\ outcome.prob.cnts[i].name = "pose_1"
       /\ outcome.prob.cnts[j].name = "pose_5"

\* C10: in every assembled pick or place problem the boundary joint
\* constraint carries one value per manipulator joint, in the order of the
\* manipulator's joint names, and equals the stationary seed, also when the
\* environment has more joints than the manipulator.
C10_BoundaryMatchesSeed ==
  ((Assembled("pick") \/ Assembled("place")) /\ call.steps >= 1) =>
    LET prob == outcome.prob
        boundary == SelectSeq(prob.cnts, IsBoundary)
    IN /\ Len(boundary) = 1
       /\ Len(boundary[1].vals) = Len(env.manip_joints)
       /\ boundary[1].vals = getCurrentJointValuesOf(env)
       /\ \A t \in 1..prob.n_steps : prob.init_traj[t] = boundary[1].vals

====
